---- MODULE Spec2Model ----
(***************************************************************************)
(* Poseidon2WideChip (recursion/core/src/poseidon2_wide/external.rs):      *)
(* trace generation for the width-16 Poseidon2 permutation, the row        *)
(* layout, the inclusion predicate and the (empty) constraint evaluation.  *)
(*                                                                         *)
(* generate_trace is modelled as a state machine whose program counter     *)
(* walks the for-loop over the events and, inside one iteration, the fixed *)
(* round schedule; one action per statement group of the function.         *)
(* The chip is generic over F: PrimeField32; the model instantiates F with *)
(* the integers modulo FieldOrder.                                         *)
(***************************************************************************)
EXTENDS Integers, Sequences, FiniteSets, TLC

(* ------------------------------------------------------------------ *)
(* Bounds of the model                                                *)
(* ------------------------------------------------------------------ *)

\* Order of the field F the chip is instantiated with.
FieldOrder == 11

\* Largest number of poseidon2 events in the input record.
MaxEvents == 3

(* ------------------------------------------------------------------ *)
(* Program constants                                                  *)
(* ------------------------------------------------------------------ *)

WIDTH == 16

NUM_EXTERNAL_ROUNDS == 8

NUM_INTERNAL_ROUNDS == 22

NUM_ROUNDS == NUM_EXTERNAL_ROUNDS + NUM_INTERNAL_ROUNDS

Lanes == 0..(WIDTH - 1)

\* size_of::<Poseidon2WideExternalRoundCols<u8>>(): state, sbox_deg_3, sbox_deg_7.
ExternalRoundColsSize == 3 * WIDTH

\* size_of::<Poseidon2WideInternalRoundCols<u8>>(): state, then two scalars.
InternalRoundColsSize == WIDTH + 2

\* size_of::<Poseidon2WideCols<u8>>()
NUM_POSEIDON2_WIDE_COLS ==
    WIDTH + WIDTH + NUM_EXTERNAL_ROUNDS * ExternalRoundColsSize
          + NUM_INTERNAL_ROUNDS * InternalRoundColsSize

(* ------------------------------------------------------------------ *)
(* Field arithmetic (F: PrimeField32)                                 *)
(* ------------------------------------------------------------------ *)

Fld == 0..(FieldOrder - 1)

FAdd(a, b) == (a + b) % FieldOrder

FMul(a, b) == (a * b) % FieldOrder

\* F::from_wrapped_u32: reduce a raw 32-bit constant into the field.
from_wrapped_u32(x) == x % FieldOrder

\* A [F; WIDTH] array value: the function f with every element computed.
Array(f) == f @@ <<>>

ZeroVec == Array([j \in Lanes |-> 0])

(* ------------------------------------------------------------------ *)
(* Collaborators of the chip                                          *)
(* ------------------------------------------------------------------ *)

\* The shared 30 x 16 table of raw round constants (sp1_primitives).
RC_16_30_U32(row, lane) == ((row * WIDTH + lane + 1) * 7919) % 104729

\* crate::poseidon2::apply_m_4 on one chunk of four lanes (a 4-tuple).
apply_m_4(x) ==
    LET t0 == FAdd(x[1], x[2])
        t1 == FAdd(x[3], x[4])
        t2 == FAdd(FAdd(x[2], x[2]), t1)
        t3 == FAdd(FAdd(x[4], x[4]), t0)
        t4 == FAdd(FMul(4, t1), t3)
        t5 == FAdd(FMul(4, t0), t2)
        t6 == FAdd(t3, t5)
        t7 == FAdd(t2, t4)
    IN  <<t6, t5, t7, t4>>

RECURSIVE SumChunks(_, _, _)
\* Sum over the chunks c..(WIDTH/4 - 1) of position k of the mixed chunks.
SumChunks(m, k, c) ==
    IF c >= WIDTH \div 4 THEN 0 ELSE FAdd(m[c][k], SumChunks(m, k, c + 1))

ExternalMixFinish(m, sums) ==
    Array([j \in Lanes |-> FAdd(m[j \div 4][(j % 4) + 1], sums[(j % 4) + 1])])

ExternalMixSums(m) ==
    ExternalMixFinish(m, <<SumChunks(m, 1, 0), SumChunks(m, 2, 0),
                           SumChunks(m, 3, 0), SumChunks(m, 4, 0)>>)

\* crate::poseidon2::external_linear_layer: M4 on every chunk, then the
\* per-position sums added to every lane.
external_linear_layer(input) ==
    ExternalMixSums(Array([c \in 0..(WIDTH \div 4 - 1) |->
        apply_m_4(<<input[4 * c], input[4 * c + 1],
                    input[4 * c + 2], input[4 * c + 3]>>)]))

RECURSIVE SumLanes(_, _)
SumLanes(v, j) == IF j >= WIDTH THEN 0 ELSE FAdd(v[j], SumLanes(v, j + 1))

\* Diagonal of the internal matrix: -2, 1, 2, 4, ...
MatrixDiag(j) == IF j = 0 THEN (FieldOrder - 2) % FieldOrder
                 ELSE (2 ^ (j - 1)) % FieldOrder

InternalMixFinish(state, sum) ==
    Array([j \in Lanes |-> FAdd(FMul(MatrixDiag(j), state[j]), sum)])

\* crate::poseidon2::internal_linear_layer: diag * state + sum(state).
internal_linear_layer(state) == InternalMixFinish(state, SumLanes(state, 0))

(* ------------------------------------------------------------------ *)
(* Column layout                                                      *)
(* ------------------------------------------------------------------ *)

ExternalRounds == 0..(NUM_EXTERNAL_ROUNDS - 1)

InternalRounds == 0..(NUM_INTERNAL_ROUNDS - 1)

\* [F::zero(); NUM_POSEIDON2_WIDE_COLS] seen through Poseidon2WideCols<F>.
ZeroCols ==
    [input |-> ZeroVec,
     output |-> ZeroVec,
     external_rounds |-> [r \in ExternalRounds |->
         [state |-> ZeroVec, sbox_deg_3 |-> ZeroVec, sbox_deg_7 |-> ZeroVec]],
     internal_rounds |-> [r \in InternalRounds |->
         [state |-> ZeroVec, sbox_deg_3 |-> 0, sbox_deg_7 |-> 0]]]

ExternalOffset == WIDTH + WIDTH

InternalOffset == ExternalOffset + NUM_EXTERNAL_ROUNDS * ExternalRoundColsSize

\* Cell k (0-based) of the flat row that the #[repr(C)] struct lays out:
\* input, output, external_rounds, internal_rounds.
CellOf(cols, k) ==
    IF k < WIDTH THEN cols.input[k]
    ELSE IF k < ExternalOffset THEN cols.output[k - WIDTH]
    ELSE IF k < InternalOffset THEN
        LET e == k - ExternalOffset
            blk == cols.external_rounds[e \div ExternalRoundColsSize]
            o == e % ExternalRoundColsSize
        IN  IF o < WIDTH THEN blk.state[o]
            ELSE IF o < 2 * WIDTH THEN blk.sbox_deg_3[o - WIDTH]
            ELSE blk.sbox_deg_7[o - 2 * WIDTH]
    ELSE
        LET i == k - InternalOffset
            blk == cols.internal_rounds[i \div InternalRoundColsSize]
            o == i % InternalRoundColsSize
        IN  IF o < WIDTH THEN blk.state[o]
            ELSE IF o = WIDTH THEN blk.sbox_deg_3
            ELSE blk.sbox_deg_7

\* The row array behind a Poseidon2WideCols view (borrow_mut, line 78).
ColsToRow(cols) == [k \in 1..NUM_POSEIDON2_WIDE_COLS |-> CellOf(cols, k - 1)]

\* The Poseidon2WideCols view of a row slice (borrow, line 204).
RowToCols(row) ==
    [input |-> [j \in Lanes |-> row[1 + j]],
     output |-> [j \in Lanes |-> row[1 + WIDTH + j]],
     external_rounds |-> [r \in ExternalRounds |->
         LET base == ExternalOffset + r * ExternalRoundColsSize
         IN  [state |-> [j \in Lanes |-> row[1 + base + j]],
              sbox_deg_3 |-> [j \in Lanes |-> row[1 + base + WIDTH + j]],
              sbox_deg_7 |-> [j \in Lanes |-> row[1 + base + 2 * WIDTH + j]]]],
     internal_rounds |-> [r \in InternalRounds |->
         LET base == InternalOffset + r * InternalRoundColsSize
         IN  [state |-> [j \in Lanes |-> row[1 + base + j]],
              sbox_deg_3 |-> row[1 + base + WIDTH],
              sbox_deg_7 |-> row[1 + base + WIDTH + 1]]]]

(* ------------------------------------------------------------------ *)
(* Round engine                                                       *)
(* ------------------------------------------------------------------ *)

\* add_rc * add_rc * add_rc
Sbox3(add_rc) == FMul(FMul(add_rc, add_rc), add_rc)

\* Faulty variant: the last factor add_rc is dropped (x^6 instead of x^7).
Sbox7WithoutAddRc(sbox_deg_3, add_rc) == FMul(sbox_deg_3, sbox_deg_3)

\* sbox_deg_3 * sbox_deg_3 * add_rc
Sbox7(sbox_deg_3, add_rc) == FMul(FMul(sbox_deg_3, sbox_deg_3), add_rc)

\* add_rc[j] += F::from_wrapped_u32(RC_16_30_U32[r][j]) for every lane j.
ExternalAddRc(state, r) ==
    Array([j \in Lanes |-> FAdd(state[j], from_wrapped_u32(RC_16_30_U32(r, j)))])

\* Faulty variant: the table row is offset by the first external half.
InternalAddRcCumulative(state, r) ==
    FAdd(state[0], from_wrapped_u32(RC_16_30_U32(r + NUM_EXTERNAL_ROUNDS \div 2, 0)))

\* state[0] + F::from_wrapped_u32(RC_16_30_U32[r][0])
InternalAddRc(state, r) == FAdd(state[0], from_wrapped_u32(RC_16_30_U32(r, 0)))

\* Faulty variant: the hand-over to the internal rounds is tested one round late.
ExternalNextStateColsOffByOne(r) ==
    IF r = NUM_EXTERNAL_ROUNDS \div 2 THEN <<"int", 0>>
    ELSE IF r = NUM_EXTERNAL_ROUNDS - 1 THEN <<"output", 0>>
    ELSE <<"ext", r + 1>>

\* next_state_cols of an external round: the block its mixed result goes to.
ExternalNextStateCols(r) ==
    IF r = (NUM_EXTERNAL_ROUNDS \div 2) - 1 THEN <<"int", 0>>
    ELSE IF r = NUM_EXTERNAL_ROUNDS - 1 THEN <<"output", 0>>
    ELSE <<"ext", r + 1>>

\* next_state_cols of an internal round.
InternalNextStateCols(r) ==
    IF r = NUM_INTERNAL_ROUNDS - 1 THEN <<"ext", NUM_EXTERNAL_ROUNDS \div 2>>
    ELSE <<"int", r + 1>>

\* Assignment through the next_state_cols reference.
WriteState(cols, target, v) ==
    IF target[1] = "output" THEN [cols EXCEPT !.output = v]
    ELSE IF target[1] = "int"
         THEN [cols EXCEPT !.internal_rounds[target[2]].state = v]
         ELSE [cols EXCEPT !.external_rounds[target[2]].state = v]

ExternalRoundStore(cols, r, sbox_deg_3, sbox_deg_7) ==
    WriteState([cols EXCEPT !.external_rounds[r].sbox_deg_3 = sbox_deg_3,
                            !.external_rounds[r].sbox_deg_7 = sbox_deg_7],
               ExternalNextStateCols(r),
               external_linear_layer(sbox_deg_7))

ExternalRoundSbox(cols, r, add_rc, sbox_deg_3) ==
    ExternalRoundStore(cols, r, sbox_deg_3,
                       Array([j \in Lanes |-> Sbox7(sbox_deg_3[j], add_rc[j])]))

ExternalRoundAddRc(cols, r, add_rc) ==
    ExternalRoundSbox(cols, r, add_rc, Array([j \in Lanes |-> Sbox3(add_rc[j])]))

generate_external_round(cols, r) ==
    ExternalRoundAddRc(cols, r, ExternalAddRc(cols.external_rounds[r].state, r))

\* Faulty variant: res[0] is not replaced by the sbox output.
InternalMixInputUnchanged(state, sbox_deg_7) == state

\* res = round_cols.state; res[0] = round_cols.sbox_deg_7
InternalMixInput(state, sbox_deg_7) == [state EXCEPT ![0] = sbox_deg_7]

InternalRoundStore(cols, r, sbox_deg_3, sbox_deg_7) ==
    WriteState([cols EXCEPT !.internal_rounds[r].sbox_deg_3 = sbox_deg_3,
                            !.internal_rounds[r].sbox_deg_7 = sbox_deg_7],
               InternalNextStateCols(r),
               internal_linear_layer(
                   InternalMixInput(cols.internal_rounds[r].state, sbox_deg_7)))

InternalRoundSbox(cols, r, add_rc, sbox_deg_3) ==
    InternalRoundStore(cols, r, sbox_deg_3, Sbox7(sbox_deg_3, add_rc))

InternalRoundAddRc(cols, r, add_rc) ==
    InternalRoundSbox(cols, r, add_rc, Sbox3(add_rc))

generate_internal_round(cols, r) ==
    InternalRoundAddRc(cols, r, InternalAddRc(cols.internal_rounds[r].state, r))

(* ------------------------------------------------------------------ *)
(* Matrix assembly                                                    *)
(* ------------------------------------------------------------------ *)

\* Faulty variant: the row is inserted at the front.
PushRowFront(rs, row) == <<row>> \o rs

\* rows.push(row)
PushRow(rs, row) == Append(rs, row)

RECURSIVE FlattenRows(_)
\* rows.into_iter().flatten().collect::<Vec<_>>()
FlattenRows(rs) == IF rs = <<>> THEN <<>> ELSE Head(rs) \o FlattenRows(Tail(rs))

\* Faulty variant: the matrix is given the permutation width as its width.
NewMatrixPermutationWidth(rs) == [values |-> FlattenRows(rs), width |-> WIDTH]

\* RowMajorMatrix::new(values, NUM_POSEIDON2_WIDE_COLS)
NewMatrix(rs) == [values |-> FlattenRows(rs), width |-> NUM_POSEIDON2_WIDE_COLS]

\* Matrix::height of a row-major matrix.
Height(m) == Len(m.values) \div m.width

\* Row h (1-based) of a row-major matrix.
RowSlice(m, h) == SubSeq(m.values, (h - 1) * m.width + 1, h * m.width)

RECURSIVE NextPowerOfTwoFrom(_, _)
NextPowerOfTwoFrom(n, p) == IF p >= n THEN p ELSE NextPowerOfTwoFrom(n, 2 * p)

\* usize::next_power_of_two: the smallest power of two >= n (1 for n = 0).
next_power_of_two(n) == NextPowerOfTwoFrom(n, 1)

\* sp1_core::utils::pad_to_power_of_two::<N, F>: zero rows appended up to
\* the next power of two of the row count.
pad_to_power_of_two(n, values) ==
    values \o [k \in 1..(next_power_of_two(Len(values) \div n) * n - Len(values)) |-> 0]

\* Faulty variant: the negation is missing.
includedWhenEmpty(record) == record = <<>>

\* included: !record.poseidon2_events.is_empty()
included(record) == ~(record = <<>>)

\* Air::eval: the expressions the builder is asked to assert zero on a row.
\* The body only borrows the local row.
EvalAssertions(local) == {}

\* A row passes eval when every asserted expression is zero on it.
EvalAccepts(row) == \A e \in EvalAssertions(RowToCols(row)) : e = 0

(* ------------------------------------------------------------------ *)
(* State                                                              *)
(* ------------------------------------------------------------------ *)

VARIABLES
    events,     \* input.poseidon2_events, each event an [input: [F; WIDTH]]
    idx,        \* number of events the for-loop has consumed
    pc,         \* position inside generate_trace
    r,          \* round counter of the inner for-loops
    cols,       \* the row under construction, seen through Poseidon2WideCols
    rows,       \* the Vec of finished rows
    trace,      \* the RowMajorMatrix: [values, width]
    trail,      \* for the row under construction: the blocks each step read and wrote
    prover,     \* what the composed machine did with the chip
    evaluated   \* rows the proving engine has run eval on, with the verdict

vars == <<events, idx, pc, r, cols, rows, trace, trail, prover, evaluated>>

\* The all-ones input of the tests, the all-zero input, and a ramp that
\* holds every field element including FieldOrder - 1.
OneVec == [j \in Lanes |-> 1 % FieldOrder]

RampVec == [j \in Lanes |-> (FieldOrder - 1 - j) % FieldOrder]

InputVectors == {ZeroVec, OneVec, RampVec}

Poseidon2Events == {[input |-> v] : v \in InputVectors}

\* Cells of a row that a dishonest prover may alter before eval sees it
\* (1-based positions in the flat row; 0 stands for the unaltered row).
TamperCells == {0, WIDTH + 1, ExternalOffset + WIDTH + 1, InternalOffset + WIDTH + 1}

EmptyMatrix == [values |-> <<>>, width |-> NUM_POSEIDON2_WIDE_COLS]

Init ==
    /\ events \in UNION {[1..n -> Poseidon2Events] : n \in 0..MaxEvents}
    /\ idx = 0
    /\ pc = "loop"
    /\ r = 0
    /\ cols = ZeroCols
    /\ rows = <<>>
    /\ trace = EmptyMatrix
    /\ trail = <<>>
    /\ prover = "idle"
    /\ evaluated = <<>>

(* ------------------------------------------------------------------ *)
(* generate_trace                                                     *)
(* ------------------------------------------------------------------ *)

\* let mut row = [F::zero(); N]; cols.input = event.input
StartCols(event) == [ZeroCols EXCEPT !.input = event.input]

\* Faulty variant: the loop stops one event early.
LoopDoneOneEarly(i, evs) == i + 1 >= Len(evs)

\* The for-loop over the events is exhausted.
LoopDone(i, evs) == i >= Len(evs)

\* let mut row = [F::zero(); N]; cols.input = event.input
StartRow ==
    /\ pc = "loop"
    /\ ~LoopDone(idx, events)
    /\ cols' = StartCols(events[idx + 1])
    /\ trail' = <<[op |-> "input", r |-> 0,
                   reads |-> <<"event", idx>>, writes |-> <<"input", 0>>]>>
    /\ pc' = "init"
    /\ UNCHANGED <<events, idx, r, rows, trace, prover, evaluated>>

\* external_linear_layer(&cols.input, &mut cols.external_rounds[0].state)
InitialMix ==
    /\ pc = "init"
    /\ cols' = WriteState(cols, <<"ext", 0>>, external_linear_layer(cols.input))
    /\ trail' = Append(trail, [op |-> "mix", r |-> 0,
                               reads |-> <<"input", 0>>, writes |-> <<"ext", 0>>])
    /\ pc' = "ext1"
    /\ r' = 0
    /\ UNCHANGED <<events, idx, rows, trace, prover, evaluated>>

\* for r in 0..NUM_EXTERNAL_ROUNDS / 2 { generate_external_round(cols, r) }
ExternalRoundFirstHalf ==
    /\ pc = "ext1"
    /\ cols' = generate_external_round(cols, r)
    /\ trail' = Append(trail, [op |-> "ext", r |-> r,
                               reads |-> <<"ext", r>>,
                               writes |-> ExternalNextStateCols(r)])
    /\ IF r + 1 < NUM_EXTERNAL_ROUNDS \div 2
       THEN pc' = "ext1" /\ r' = r + 1
       ELSE pc' = "int" /\ r' = 0
    /\ UNCHANGED <<events, idx, rows, trace, prover, evaluated>>

\* for r in 0..NUM_INTERNAL_ROUNDS { generate_internal_round(cols, r) }
InternalRound ==
    /\ pc = "int"
    /\ cols' = generate_internal_round(cols, r)
    /\ trail' = Append(trail, [op |-> "int", r |-> r,
                               reads |-> <<"int", r>>,
                               writes |-> InternalNextStateCols(r)])
    /\ IF r + 1 < NUM_INTERNAL_ROUNDS
       THEN pc' = "int" /\ r' = r + 1
       ELSE pc' = "ext2" /\ r' = NUM_EXTERNAL_ROUNDS \div 2
    /\ UNCHANGED <<events, idx, rows, trace, prover, evaluated>>

\* for r in NUM_EXTERNAL_ROUNDS / 2..NUM_EXTERNAL_ROUNDS { generate_external_round(cols, r) }
ExternalRoundSecondHalf ==
    /\ pc = "ext2"
    /\ cols' = generate_external_round(cols, r)
    /\ trail' = Append(trail, [op |-> "ext", r |-> r,
                               reads |-> <<"ext", r>>,
                               writes |-> ExternalNextStateCols(r)])
    /\ IF r + 1 < NUM_EXTERNAL_ROUNDS
       THEN pc' = "ext2" /\ r' = r + 1
       ELSE pc' = "push" /\ r' = 0
    /\ UNCHANGED <<events, idx, rows, trace, prover, evaluated>>

\* rows.push(row); the loop moves to the next event
Push ==
    /\ pc = "push"
    /\ rows' = PushRow(rows, ColsToRow(cols))
    /\ idx' = idx + 1
    /\ pc' = "loop"
    /\ trail' = <<>>
    /\ UNCHANGED <<events, r, cols, trace, prover, evaluated>>

\* let mut trace = RowMajorMatrix::new(rows.into_iter().flatten().collect(), N)
BuildMatrix ==
    /\ pc = "loop"
    /\ LoopDone(idx, events)
    /\ trace' = NewMatrix(rows)
    /\ rows' = <<>>
    /\ pc' = "pad"
    /\ UNCHANGED <<events, idx, r, cols, trail, prover, evaluated>>

\* pad_to_power_of_two::<NUM_POSEIDON2_WIDE_COLS, F>(&mut trace.values); trace
Pad ==
    /\ pc = "pad"
    /\ trace' = [trace EXCEPT
                   !.values = pad_to_power_of_two(NUM_POSEIDON2_WIDE_COLS, @)]
    /\ pc' = "done"
    /\ UNCHANGED <<events, idx, r, cols, rows, trail, prover, evaluated>>

(* ------------------------------------------------------------------ *)
(* The composed machine and the proving engine                        *)
(* ------------------------------------------------------------------ *)

\* The machine keeps the chip, and hands its trace to the prover, when
\* included(record) holds.
IncludeChip ==
    /\ pc = "done"
    /\ prover = "idle"
    /\ included(events)
    /\ prover' = "proving"
    /\ UNCHANGED <<events, idx, pc, r, cols, rows, trace, trail, evaluated>>

\* Otherwise the chip is left out of the composed proof.
OmitChip ==
    /\ pc = "done"
    /\ prover = "idle"
    /\ ~included(events)
    /\ prover' = "omitted"
    /\ UNCHANGED <<events, idx, pc, r, cols, rows, trace, trail, evaluated>>

\* Row h of the trace with cell t raised by one (t = 0: the row as it is).
Tampered(row, t) == IF t = 0 THEN row ELSE [row EXCEPT ![t] = FAdd(@, 1)]

\* The engine runs eval on one row of the committed trace.
Eval ==
    /\ prover = "proving"
    /\ evaluated = <<>>
    /\ \E h \in 1..Height(trace), t \in TamperCells :
         evaluated' = <<[row |-> Tampered(RowSlice(trace, h), t),
                         tampered |-> t # 0,
                         accepted |-> EvalAccepts(Tampered(RowSlice(trace, h), t))]>>
    /\ UNCHANGED <<events, idx, pc, r, cols, rows, trace, trail, prover>>

Next ==
    \/ StartRow
    \/ InitialMix
    \/ ExternalRoundFirstHalf
    \/ InternalRound
    \/ ExternalRoundSecondHalf
    \/ Push
    \/ BuildMatrix
    \/ Pad
    \/ IncludeChip
    \/ OmitChip
    \/ Eval

Spec == Init /\ [][Next]_vars

(* ------------------------------------------------------------------ *)
(* generate_trace's loop in one step, for relating runs on different  *)
(* records                                                            *)
(* ------------------------------------------------------------------ *)

RECURSIVE RunExternalRounds(_, _, _)
\* for q in lo..hi { generate_external_round(cols, q) }
RunExternalRounds(c, q, hi) ==
    IF q < hi /\ c.input \in [Lanes -> Fld]
    THEN RunExternalRounds(generate_external_round(c, q), q + 1, hi)
    ELSE c

RECURSIVE RunInternalRounds(_, _, _)
\* for q in lo..hi { generate_internal_round(cols, q) }
RunInternalRounds(c, q, hi) ==
    IF q < hi /\ c.input \in [Lanes -> Fld]
    THEN RunInternalRounds(generate_internal_round(c, q), q + 1, hi)
    ELSE c

\* The body of the for-loop over the events: the row built for one event.
GenerateRow(event) ==
    ColsToRow(
        RunExternalRounds(
            RunInternalRounds(
                RunExternalRounds(
                    WriteState(StartCols(event), <<"ext", 0>>,
                               external_linear_layer(event.input)),
                    0, NUM_EXTERNAL_ROUNDS \div 2),
                0, NUM_INTERNAL_ROUNDS),
            NUM_EXTERNAL_ROUNDS \div 2, NUM_EXTERNAL_ROUNDS))

RECURSIVE GenerateRowsFrom(_, _, _)
GenerateRowsFrom(evs, rs, i) ==
    IF i < Len(evs) /\ Len(rs) = i
    THEN GenerateRowsFrom(evs, PushRow(rs, GenerateRow(evs[i + 1])), i + 1)
    ELSE rs

\* The Vec of rows the for-loop leaves behind for a record's events.
GenerateRows(evs) == GenerateRowsFrom(evs, <<>>, 0)

(* ------------------------------------------------------------------ *)
(* Reference definitions the properties are stated against            *)
(* ------------------------------------------------------------------ *)

RECURSIVE Pow(_, _)
\* x^n by repeated multiplication.
Pow(x, n) == IF n = 0 THEN 1 % FieldOrder ELSE FMul(x, Pow(x, n - 1))

\* The round constant of table row q and lane j as a field element.
Constant(q, j) == RC_16_30_U32(q, j) % FieldOrder

RECURSIVE RefFullRounds(_, _, _)
\* Full rounds q..hi-1 applied to a bare state vector.
RefFullRounds(st, q, hi) ==
    IF q < hi /\ st \in [Lanes -> Fld]
    THEN RefFullRounds(
             external_linear_layer(
                 Array([j \in Lanes |-> Pow(FAdd(st[j], Constant(q, j)), 7)])),
             q + 1, hi)
    ELSE st

RECURSIVE RefPartialRounds(_, _, _)
\* Partial rounds q..hi-1 applied to a bare state vector.
RefPartialRounds(st, q, hi) ==
    IF q < hi /\ st \in [Lanes -> Fld]
    THEN RefPartialRounds(
             internal_linear_layer(
                 Array([j \in Lanes |->
                     IF j = 0 THEN Pow(FAdd(st[0], Constant(q, 0)), 7) ELSE st[j]])),
             q + 1, hi)
    ELSE st

\* The permutation, straight-line: initial external mix, 4 full rounds,
\* 22 partial rounds, 4 full rounds, constants read as section 4.1 states.
RefPermute(input) ==
    RefFullRounds(
        RefPartialRounds(
            RefFullRounds(external_linear_layer(input), 0, 4),
            0, 22),
        4, 8)

IsPowerOfTwo(n) == \E e \in 0..20 : n = 2 ^ e

\* Width of the layout counted field by field: input, output, 8 blocks of
\* three 16-lane vectors, 22 blocks of one 16-lane vector and two scalars.
LayoutWidth == 16 + 16 + 8 * (16 + 16 + 16) + 22 * (16 + 1 + 1)

IsZeroRow(row) == \A k \in 1..Len(row) : row[k] = 0

NumEvents == Len(events)

\* The state vector of a block named by a next_state_cols target.
BlockState(c, block) ==
    IF block[1] = "output" THEN c.output
    ELSE IF block[1] = "int" THEN c.internal_rounds[block[2]].state
    ELSE IF block[1] = "ext" THEN c.external_rounds[block[2]].state
    ELSE c.input

\* Rows 1..NumEvents of the finished matrix, as column views.
RealCols(h) == RowToCols(RowSlice(trace, h))

(* ------------------------------------------------------------------ *)
(* The constraint set of section 4.4, on one row's columns            *)
(* ------------------------------------------------------------------ *)

InitialIdentity(c) == c.external_rounds[0].state = external_linear_layer(c.input)

ExternalIdentities(c, q) ==
    LET blk == c.external_rounds[q]
        nxt == IF q = 3 THEN c.internal_rounds[0].state
               ELSE IF q = 7 THEN c.output
               ELSE c.external_rounds[q + 1].state
    IN  /\ \A j \in Lanes :
             LET x == FAdd(blk.state[j], Constant(q, j))
             IN  /\ blk.sbox_deg_3[j] = FMul(FMul(x, x), x)
                 /\ blk.sbox_deg_7[j] = FMul(FMul(blk.sbox_deg_3[j], blk.sbox_deg_3[j]), x)
        /\ nxt = external_linear_layer(blk.sbox_deg_7)

InternalIdentities(c, q) ==
    LET blk == c.internal_rounds[q]
        x == FAdd(blk.state[0], Constant(q, 0))
        nxt == IF q = 21 THEN c.external_rounds[4].state
               ELSE c.internal_rounds[q + 1].state
    IN  /\ blk.sbox_deg_3 = FMul(FMul(x, x), x)
        /\ blk.sbox_deg_7 = FMul(FMul(blk.sbox_deg_3, blk.sbox_deg_3), x)
        /\ nxt = internal_linear_layer(
                     Array([j \in Lanes |-> IF j = 0 THEN blk.sbox_deg_7 ELSE blk.state[j]]))

\* Every identity of the constraint set evaluates to zero on the row.
RowIdentities(c) ==
    /\ InitialIdentity(c)
    /\ \A q \in 0..7 : ExternalIdentities(c, q)
    /\ \A q \in 0..21 : InternalIdentities(c, q)

(* ------------------------------------------------------------------ *)
(* Properties                                                         *)
(* ------------------------------------------------------------------ *)

\* C1: the matrix generate_trace returns has the fixed layout width, and its
\* height is the smallest power of two >= N for N >= 1 events and 1 for N = 0.
C1_HeightLaw ==
    pc = "done" =>
        /\ trace.width = LayoutWidth
        /\ Len(trace.values) = Height(trace) * trace.width
        /\ IsPowerOfTwo(Height(trace))
        /\ Height(trace) >= NumEvents
        /\ (NumEvents >= 1 => Height(trace) < 2 * NumEvents)
        /\ (NumEvents = 0 => Height(trace) = 1)

\* Three events are padded to a matrix of height four.
C1_Witness == pc = "done" /\ NumEvents = 3 /\ Height(trace) = 4

\* C2: in the returned matrix every row at index >= N is all zero, and the
\* padding is appended only after all N real rows are written: when padding
\* starts the matrix holds exactly the N real rows, padding leaves them as
\* they are, and nothing is written once the matrix is padded.
C2_PaddingLaw ==
    /\ [](pc = "done" =>
            /\ idx = NumEvents
            /\ \A h \in (NumEvents + 1)..Height(trace) : IsZeroRow(RowSlice(trace, h)))
    /\ [][pc = "pad" =>
            /\ Len(trace.values) = NumEvents * trace.width
            /\ \A h \in 1..NumEvents : RowSlice(trace, h) = GenerateRow(events[h])
            /\ SubSeq(trace'.values, 1, Len(trace.values)) = trace.values]_vars
    /\ [][pc = "done" => (pc' = "done" /\ trace' = trace /\ rows' = rows)]_vars

\* A padded matrix: the last real row is not zero, the rows after it are.
C2_Witness ==
    /\ pc = "done"
    /\ NumEvents >= 1
    /\ Height(trace) > NumEvents
    /\ ~IsZeroRow(RowSlice(trace, NumEvents))
    /\ IsZeroRow(RowSlice(trace, Height(trace)))

\* C3: included(record) is true iff the record has at least one event; with
\* zero events the chip is omitted and its trace is never handed to the
\* prover nor evaluated.
C3_IncludedIffNonEmpty ==
    /\ included(events) <=> (NumEvents > 0)
    /\ prover = "proving" => NumEvents > 0
    /\ prover = "omitted" => NumEvents = 0
    /\ evaluated # <<>> => NumEvents > 0

\* The empty record: the one-row matrix exists and the chip is omitted.
C3_Witness ==
    /\ prover = "omitted"
    /\ NumEvents = 0
    /\ Height(trace) = 1
    /\ ~included(events)

\* C4: the output column written for an event equals the straight-line
\* reference permutation of that event's input, both in the row under
\* construction and in the returned matrix.
C4_OutputIsPermutation ==
    /\ pc = "push" => cols.output = RefPermute(cols.input)
    /\ pc = "done" =>
         \A h \in 1..NumEvents : RealCols(h).output = RefPermute(events[h].input)

\* A finished matrix with the ramp input and the all-ones input in it.
C4_Witness ==
    /\ pc = "done"
    /\ \E h \in 1..NumEvents : events[h].input = RampVec /\ RealCols(h).input = RampVec
    /\ \E h \in 1..NumEvents : events[h].input = OneVec /\ RealCols(h).output # OneVec

\* C5: every row of the matrix handed to the prover, padding rows included,
\* satisfies every identity of the constraint set.
C5_EveryRowSatisfiesIdentities ==
    prover = "proving" => \A h \in 1..Height(trace) : RowIdentities(RealCols(h))

\* C6: a row that eval accepts satisfies the full identity set.
C6_EvalEnforcesIdentities ==
    \A k \in 1..Len(evaluated) :
        evaluated[k].accepted => RowIdentities(RowToCols(evaluated[k].row))

\* The sbox columns of external block q of c against x^3 and x^7.
ExternalSboxLaw(c, q) ==
    \A j \in Lanes :
        LET x == FAdd(c.external_rounds[q].state[j], Constant(q, j))
        IN  /\ c.external_rounds[q].sbox_deg_3[j] = Pow(x, 3)
            /\ c.external_rounds[q].sbox_deg_7[j] = Pow(x, 7)

\* The sbox columns of internal block q of c against x^3 and x^7.
InternalSboxLaw(c, q) ==
    LET x == FAdd(c.internal_rounds[q].state[0], Constant(q, 0))
    IN  /\ c.internal_rounds[q].sbox_deg_3 = Pow(x, 3)
        /\ c.internal_rounds[q].sbox_deg_7 = Pow(x, 7)

\* C7: for every round the schedule has executed, external on all lanes and
\* internal on lane 0, the recorded sbox_deg_3 is (state + rc)^3 and the
\* recorded sbox_deg_7 is (state + rc)^7 by repeated multiplication; the
\* same holds of every real row of the returned matrix.
C7_SboxLaw ==
    /\ \A k \in 1..Len(trail) :
         /\ trail[k].op = "ext" => ExternalSboxLaw(cols, trail[k].r)
         /\ trail[k].op = "int" => InternalSboxLaw(cols, trail[k].r)
    /\ pc = "done" =>
         \A h \in 1..NumEvents :
             /\ \A q \in ExternalRounds : ExternalSboxLaw(RealCols(h), q)
             /\ \A q \in InternalRounds : InternalSboxLaw(RealCols(h), q)

\* A finished row whose rounds met the sbox arguments 0 and FieldOrder - 1
\* and the states 0 and FieldOrder - 1, in external and in internal rounds.
C7_Witness ==
    /\ pc = "push"
    /\ \A v \in {0, FieldOrder - 1} :
         /\ \E q \in ExternalRounds, j \in Lanes :
                cols.external_rounds[q].state[j] = v
         /\ \E q \in ExternalRounds, j \in Lanes :
                FAdd(cols.external_rounds[q].state[j], Constant(q, j)) = v
         /\ \E q \in InternalRounds : cols.internal_rounds[q].state[0] = v
         /\ \E q \in InternalRounds :
                FAdd(cols.internal_rounds[q].state[0], Constant(q, 0)) = v

\* C8: the unpadded rows built for A followed by B are the rows built for A
\* followed by the rows built for B, for every split of the record's events,
\* and row i holds event i: its input column is that event's input.
C8_Composability ==
    (pc = "loop" /\ idx = NumEvents) =>
        /\ \A k \in 0..NumEvents :
             rows = GenerateRows(SubSeq(events, 1, k))
                      \o GenerateRows(SubSeq(events, k + 1, NumEvents))
        /\ \A i \in 1..NumEvents : RowToCols(rows[i]).input = events[i].input

\* All rows built for a record of three events, not all with the same input.
C8_Witness ==
    /\ pc = "loop"
    /\ idx = NumEvents
    /\ NumEvents = 3
    /\ Len(rows) = 3
    /\ events[1] # events[2]
    /\ rows[1] # rows[2]

\* Number of steps of the schedule of one row: input, initial mix, rounds.
ScheduleLength == 2 + NUM_ROUNDS

\* Step k of the fixed schedule of one row, as the claim states it.
ScheduleStep(k) ==
    IF k = 1 THEN
        [op |-> "input", r |-> 0,
         reads |-> <<"event", idx>>, writes |-> <<"input", 0>>]
    ELSE IF k = 2 THEN
        [op |-> "mix", r |-> 0, reads |-> <<"input", 0>>, writes |-> <<"ext", 0>>]
    ELSE IF k <= 6 THEN
        [op |-> "ext", r |-> k - 3, reads |-> <<"ext", k - 3>>,
         writes |-> IF k - 3 = 3 THEN <<"int", 0>> ELSE <<"ext", k - 2>>]
    ELSE IF k <= 28 THEN
        [op |-> "int", r |-> k - 7, reads |-> <<"int", k - 7>>,
         writes |-> IF k - 7 = 21 THEN <<"ext", 4>> ELSE <<"int", k - 6>>]
    ELSE
        [op |-> "ext", r |-> k - 25, reads |-> <<"ext", k - 25>>,
         writes |-> IF k - 25 = 7 THEN <<"output", 0>> ELSE <<"ext", k - 24>>]

\* Every block of a row: the input, the 8 + 22 state blocks and the output.
AllBlocks ==
    {<<"input", 0>>, <<"output", 0>>}
        \cup {<<"ext", q>> : q \in 0..7} \cup {<<"int", q>> : q \in 0..21}

\* What a step of the trail left in the block it wrote.
StepResult(c, step) ==
    IF step.op = "input" THEN c.input
    ELSE IF step.op = "mix" THEN external_linear_layer(c.input)
    ELSE IF step.op = "ext"
         THEN external_linear_layer(c.external_rounds[step.r].sbox_deg_7)
         ELSE internal_linear_layer(
                  Array([j \in Lanes |->
                      IF j = 0 THEN c.internal_rounds[step.r].sbox_deg_7
                      ELSE c.internal_rounds[step.r].state[j]]))

\* C9: the steps of a row run in the fixed order input, initial mix,
\* external 0..3, internal 0..21, external 4..7; each step reads the block
\* the preceding step wrote and writes exactly the one target the claim
\* names; no block is written twice, the written value stays in its block,
\* and a finished row has every block written.
C9_Schedule ==
    /\ Len(trail) <= ScheduleLength
    /\ \A k \in 1..Len(trail) :
         /\ trail[k] = ScheduleStep(k)
         /\ \A i \in 1..(k - 1) : trail[i].writes # trail[k].writes
         /\ k > 1 => trail[k].reads = trail[k - 1].writes
         /\ BlockState(cols, trail[k].writes) = StepResult(cols, trail[k])
    /\ pc = "init" => Len(trail) = 1
    /\ pc = "ext1" => Len(trail) = 2 + r
    /\ pc = "int" => Len(trail) = 6 + r
    /\ pc = "ext2" => Len(trail) = 24 + r
    /\ pc = "push" =>
         /\ Len(trail) = ScheduleLength
         /\ {trail[k].writes : k \in 1..Len(trail)} = AllBlocks

\* A finished row: all 32 steps ran, the last one wrote the output.
C9_Witness ==
    /\ pc = "push"
    /\ Len(trail) = 32
    /\ trail[6].writes = <<"int", 0>>
    /\ trail[28].writes = <<"ext", 4>>
    /\ trail[32].writes = <<"output", 0>>
    /\ cols.output # ZeroVec

\* C10: each phase reads the table with its own round index: external round
\* q uses row q on all 16 lanes (rows 0..3, then 4..7), internal round q
\* uses row q on lane 0 only and its lanes 1..15 go unchanged into the
\* internal linear layer; no offset across the 30 rows is applied.
C10_RoundConstantIndexing ==
    \A k \in 1..Len(trail) :
        LET q == trail[k].r
        IN  /\ trail[k].op = "ext" =>
                 \A j \in Lanes :
                     cols.external_rounds[q].sbox_deg_3[j] =
                         Pow(FAdd(cols.external_rounds[q].state[j],
                                  RC_16_30_U32(q, j) % FieldOrder), 3)
            /\ trail[k].op = "int" =>
                 LET blk == cols.internal_rounds[q]
                     mixed == BlockState(cols, trail[k].writes)
                     sum == SumLanes(Array([j \in Lanes |->
                                IF j = 0 THEN blk.sbox_deg_7 ELSE blk.state[j]]), 0)
                 IN  /\ q \in 0..21
                     /\ blk.sbox_deg_3 =
                            Pow(FAdd(blk.state[0], RC_16_30_U32(q, 0) % FieldOrder), 3)
                     /\ \A j \in 1..(WIDTH - 1) :
                            mixed[j] = FAdd(FMul(MatrixDiag(j), blk.state[j]), sum)

\* A finished row in which the direct and the offset table rows differ as
\* field elements, for the internal rounds and for the second external half.
C10_Witness ==
    /\ pc = "push"
    /\ \E q \in 0..3 :
         /\ Constant(q, 0) # Constant(q + 4, 0)
         /\ cols.internal_rounds[q].sbox_deg_3 #
                Pow(FAdd(cols.internal_rounds[q].state[0], Constant(q + 4, 0)), 3)
    /\ \E q \in 4..7, j \in Lanes :
         cols.external_rounds[q].sbox_deg_3[j] #
             Pow(FAdd(cols.external_rounds[q].state[j], Constant(q + 22, j)), 3)
    /\ \E q \in InternalRounds, j \in 1..(WIDTH - 1) :
         cols.internal_rounds[q].state[j] # 0

====
